---- MODULE Spec2Model ----
(***************************************************************************)
(* Combat proximity management (world/combat/proximity.py).                *)
(*                                                                         *)
(* Every character carries, in its non-persistent attribute store (ndb),   *)
(* an attribute that is expected to hold the set of characters it is in    *)
(* proximity with.  The attribute may be absent, may hold something that   *)
(* is not a set, or may hold a set.  The functions of proximity.py are     *)
(* modelled as operators on the map character -> attribute value, and the  *)
(* actions apply them.                                                     *)
(***************************************************************************)
EXTENDS Integers, Sequences, FiniteSets, TLC

\* The characters: a pair and a bystander.
Actors == {1, 2, 3}

\* Rooms a character's location can name.
NumRooms == 2

Rooms == 1..NumRooms

\* Values of character.location: the character has no such attribute, or it
\* is None (room 0), or it is a room.
NoLocationAttr == [attr |-> FALSE, room |-> 0]

LocationNone == [attr |-> TRUE, room |-> 0]

At(r) == [attr |-> TRUE, room |-> r]

LocValues == {NoLocationAttr, LocationNone} \cup {At(r) : r \in Rooms}

\* hasattr(c, 'location') and c.location is truthy
Located(l, c) == l[c].attr /\ l[c].room \in Rooms

\* Values of character.ndb.<NDB_PROXIMITY>: the attribute is absent, holds
\* something that is not a set, or holds a set of characters.
Absent == [kind |-> "absent", elems |-> {}]

NotASet == [kind |-> "other", elems |-> {}]

SetOf(S) == [kind |-> "set", elems |-> S]

Storage == {Absent, NotASet} \cup {SetOf(S) : S \in SUBSET Actors}

\* Every assignment of an attribute value to every character.
Graphs == [Actors -> Storage]

\* The orders in which a Python set of characters may be enumerated.
Orders == {o \in [1..Cardinality(Actors) -> Actors] :
             \A i, j \in 1..Cardinality(Actors) : i # j => o[i] # o[j]}

VARIABLES
  ndb,      \* ndb[c]: the proximity attribute of character c
  valid,    \* valid[c]: truth value of the character object c
  loc,      \* loc[c]: c.location
  last,     \* the call that ran last, with the graph before it
  wk        \* concurrent workers: each one's call, position and locals

vars == <<ndb, valid, loc, last, wk>>

----------------------------------------------------------------------------
(* The functions of proximity.py on a graph g.                             *)

\* hasattr(c.ndb, NDB_PROXIMITY) and isinstance(getattr(...), set)
HasProximitySet(g, c) == g[c].kind = "set"

\* The set read through getattr, empty when there is no proper set.
ProximityOf(g, c) == IF HasProximitySet(g, c) THEN g[c].elems ELSE {}

\* set.add / set.discard on the set object held by character c
AddTo(g, c, x) == [g EXCEPT ![c] = SetOf(g[c].elems \cup {x})]

DiscardFrom(g, c, x) == [g EXCEPT ![c] = SetOf(g[c].elems \ {x})]

\* initialize_proximity: the return value
InitializeNeeded(g, c) == ~HasProximitySet(g, c)

\* Mutant of initialize_proximity: a new set is installed every time
InitializeProximity_Always(g, c) == [g EXCEPT ![c] = SetOf({})]

\* initialize_proximity: the graph afterwards
InitializeProximity(g, c) ==
  IF InitializeNeeded(g, c) THEN [g EXCEPT ![c] = SetOf({})] ELSE g

\* Mutant of establish_proximity: the second add is missing
EstablishProximity_OneSided(g, c1, c2) ==
  IF c1 = c2 THEN g
  ELSE LET g1 == InitializeProximity(g, c1)
           g2 == InitializeProximity(g1, c2)
       IN  AddTo(g2, c1, c2)

\* Mutant of establish_proximity: the test char1 == char2 is missing
EstablishProximity_NoSelfTest(g, c1, c2) ==
  LET g1 == InitializeProximity(g, c1)
      g2 == InitializeProximity(g1, c2)
      g3 == AddTo(g2, c1, c2)
  IN  AddTo(g3, c2, c1)

\* establish_proximity
EstablishProximity(g, c1, c2) ==
  IF c1 = c2 THEN g
  ELSE LET g1 == InitializeProximity(g, c1)
           g2 == InitializeProximity(g1, c2)
           g3 == AddTo(g2, c1, c2)
       IN  AddTo(g3, c2, c1)

\* Mutant of break_proximity: only char1's side is discarded
BreakProximity_OneSided(g, c1, c2) ==
  IF c1 = c2 THEN g
  ELSE IF HasProximitySet(g, c1) THEN DiscardFrom(g, c1, c2) ELSE g

\* break_proximity
BreakProximity(g, c1, c2) ==
  IF c1 = c2 THEN g
  ELSE LET g1 == IF HasProximitySet(g, c1) THEN DiscardFrom(g, c1, c2) ELSE g
       IN  IF HasProximitySet(g1, c2) THEN DiscardFrom(g1, c2, c1) ELSE g1

\* list(proximity_set): the members of S in enumeration order `order`
RECURSIVE ListOf(_, _)
ListOf(S, order) ==
  IF order = <<>> THEN <<>>
  ELSE IF Head(order) \in S THEN <<Head(order)>> \o ListOf(S, Tail(order))
       ELSE ListOf(S, Tail(order))

\* get_proximity_list
GetProximityList(g, c, order) ==
  IF ~HasProximitySet(g, c) THEN <<>> ELSE ListOf(g[c].elems, order)

\* Mutant of is_in_proximity: the answer also needs char1 in char2's set
IsInProximity_BothDirections(g, c1, c2) ==
  IF c1 = c2 THEN FALSE
  ELSE IF ~HasProximitySet(g, c1) THEN FALSE
  ELSE c2 \in g[c1].elems /\ c1 \in ProximityOf(g, c2)

\* is_in_proximity
IsInProximity(g, c1, c2) ==
  IF c1 = c2 THEN FALSE
  ELSE IF ~HasProximitySet(g, c1) THEN FALSE
  ELSE c2 \in g[c1].elems

\* Mutant of the loop of clear_all_proximity: the last other_char is left out
RECURSIVE ClearLoop_StopsEarly(_, _, _)
ClearLoop_StopsEarly(g, c, others) ==
  IF Len(others) <= 1 THEN g
  ELSE LET o == Head(others)
           g1 == IF HasProximitySet(g, o) THEN DiscardFrom(g, o, c) ELSE g
       IN  ClearLoop_StopsEarly(g1, c, Tail(others))

\* clear_all_proximity, the loop over list(proximity_set)
RECURSIVE ClearLoop(_, _, _)
ClearLoop(g, c, others) ==
  IF others = <<>> THEN g
  ELSE LET o == Head(others)
           g1 == IF HasProximitySet(g, o) THEN DiscardFrom(g, o, c) ELSE g
       IN  ClearLoop(g1, c, Tail(others))

\* Mutant of clear_all_proximity: the loop over the other characters is
\* missing
ClearAllProximity_OwnSetOnly(g, c, order) ==
  IF ~HasProximitySet(g, c) THEN g
  ELSE [g EXCEPT ![c] = SetOf({})]

\* clear_all_proximity
ClearAllProximity(g, c, order) ==
  IF ~HasProximitySet(g, c) THEN g
  ELSE LET g1 == ClearLoop(g, c, ListOf(g[c].elems, order))
       IN  [g1 EXCEPT ![c] = SetOf({})]

\* Mutant of the loop of sync_proximity_bidirectional: initialize_proximity
\* is not called, a neighbour without a proper set is passed over
RECURSIVE SyncLoop_NoInitialize(_, _, _)
SyncLoop_NoInitialize(g, c, others) ==
  IF others = <<>> THEN g
  ELSE LET o == Head(others)
           g1 == IF ~IsInProximity(g, o, c) /\ HasProximitySet(g, o)
                 THEN AddTo(g, o, c)
                 ELSE g
       IN  SyncLoop_NoInitialize(g1, c, Tail(others))

\* Mutant of the loop of sync_proximity_bidirectional: the test reads
\* is_in_proximity(character, other_char)
RECURSIVE SyncLoop_WrongDirection(_, _, _)
SyncLoop_WrongDirection(g, c, others) ==
  IF others = <<>> THEN g
  ELSE LET o == Head(others)
           g1 == IF ~IsInProximity(g, c, o)
                 THEN AddTo(InitializeProximity(g, o), o, c)
                 ELSE g
       IN  SyncLoop_WrongDirection(g1, c, Tail(others))

\* Mutant of the loop of sync_proximity_bidirectional: the neighbour gets a
\* new set holding the character alone
RECURSIVE SyncLoop_NewSet(_, _, _)
SyncLoop_NewSet(g, c, others) ==
  IF others = <<>> THEN g
  ELSE LET o == Head(others)
           g1 == IF ~IsInProximity(g, o, c)
                 THEN [g EXCEPT ![o] = SetOf({c})]
                 ELSE g
       IN  SyncLoop_NewSet(g1, c, Tail(others))

\* sync_proximity_bidirectional, the loop over list(proximity_set)
RECURSIVE SyncLoop(_, _, _)
SyncLoop(g, c, others) ==
  IF others = <<>> THEN g
  ELSE LET o == Head(others)
           g1 == IF ~IsInProximity(g, o, c)
                 THEN AddTo(InitializeProximity(g, o), o, c)
                 ELSE g
       IN  SyncLoop(g1, c, Tail(others))

\* sync_proximity_bidirectional
SyncProximityBidirectional(g, c, order) ==
  IF ~HasProximitySet(g, c) THEN g
  ELSE SyncLoop(g, c, ListOf(g[c].elems, order))

\* Mutant of the test of cleanup_invalid_proximity: the rooms are compared
\* only when character.location is a room
IsInvalidFor_KnownLocationOnly(v, l, c, o) ==
  IF ~v[o] \/ ~l[o].attr \/ l[o].room \notin Rooms THEN TRUE
  ELSE Located(l, c) /\ l[c].room # l[o].room

\* cleanup_invalid_proximity: whether neighbour o of c is collected into
\* invalid_chars.  v and l are the characters' truth values and locations.
\* A location is truthy exactly when it is a room.
IsInvalidFor(v, l, c, o) ==
  IF ~v[o] \/ ~l[o].attr \/ l[o].room \notin Rooms THEN TRUE
  ELSE l[c].attr /\ l[c].room # l[o].room

\* Mutant of cleanup_invalid_proximity: the elif branch (different rooms) is
\* missing
CleanupInvalidProximity_OnlyDead(g, v, l, c) ==
  IF ~HasProximitySet(g, c) THEN g
  ELSE LET invalid_chars == {o \in g[c].elems : ~v[o] \/ ~Located(l, o)}
       IN  [g EXCEPT ![c] = SetOf(g[c].elems \ invalid_chars)]

\* Mutant of cleanup_invalid_proximity: the character is also discarded
\* from the set of every neighbour it drops
CleanupInvalidProximity_BothSides(g, v, l, c) ==
  IF ~HasProximitySet(g, c) THEN g
  ELSE LET invalid_chars == {o \in g[c].elems : IsInvalidFor(v, l, c, o)}
       IN  [o \in Actors |->
              IF o = c THEN SetOf(g[c].elems \ invalid_chars)
              ELSE IF o \in invalid_chars /\ HasProximitySet(g, o)
                   THEN SetOf(g[o].elems \ {c})
                   ELSE g[o]]

\* cleanup_invalid_proximity
CleanupInvalidProximity(g, v, l, c) ==
  IF ~HasProximitySet(g, c) THEN g
  ELSE LET invalid_chars == {o \in g[c].elems : IsInvalidFor(v, l, c, o)}
       IN  [g EXCEPT ![c] = SetOf(g[c].elems \ invalid_chars)]

\* A maintenance pass: cleanup_invalid_proximity on every character, one
\* after the other
RECURSIVE CleanupEach(_, _, _, _)
CleanupEach(g, v, l, chars) ==
  IF chars = <<>> THEN g
  ELSE CleanupEach(CleanupInvalidProximity(g, v, l, Head(chars)), v, l, Tail(chars))

\* A maintenance pass: sync_proximity_bidirectional on every character, one
\* after the other
RECURSIVE SyncEach(_, _, _)
SyncEach(g, chars, order) ==
  IF chars = <<>> THEN g
  ELSE SyncEach(SyncProximityBidirectional(g, Head(chars), order), Tail(chars), order)

----------------------------------------------------------------------------
(* How a call ends.  Every function opens with the same tests of the       *)
(* character's attribute; what follows them uses the value as a set.       *)

\* Python's None, as a returned opponent
None == 0

\* Mutant of the opening tests: the isinstance test is missing
Preamble_NoIsinstanceTest(g, c) ==
  IF g[c].kind = "absent" THEN "return" ELSE "proceed"

\* if not hasattr(...): return; proximity_set = getattr(...);
\* if not isinstance(proximity_set, set): return
Preamble(g, c) ==
  IF g[c].kind = "absent" THEN "return"
  ELSE IF g[c].kind # "set" THEN "return"
  ELSE "proceed"

\* list(x), iteration over x, x.discard, x.clear and `in x` raise when the
\* value x of character c's attribute is not a set
SetMethodRaises(g, c) == g[c].kind # "set"

\* get_proximity_list ends in an exception
GetProximityListRaises(g, c) ==
  Preamble(g, c) = "proceed" /\ SetMethodRaises(g, c)

\* is_in_proximity ends in an exception
IsInProximityRaises(g, c1, c2) ==
  c1 # c2 /\ Preamble(g, c1) = "proceed" /\ SetMethodRaises(g, c1)

\* clear_all_proximity ends in an exception (the discard in the loop is
\* guarded by its own hasattr and isinstance tests)
ClearAllProximityRaises(g, c) ==
  Preamble(g, c) = "proceed" /\ SetMethodRaises(g, c)

\* cleanup_invalid_proximity ends in an exception
CleanupInvalidProximityRaises(g, c) ==
  Preamble(g, c) = "proceed" /\ SetMethodRaises(g, c)

\* sync_proximity_bidirectional ends in an exception (the add in the loop
\* follows initialize_proximity)
SyncProximityBidirectionalRaises(g, c) ==
  Preamble(g, c) = "proceed" /\ SetMethodRaises(g, c)

\* What a call hands back: an exception, or a value
Raised == <<"raised">>

Returned(v) == <<"returned", v>>

----------------------------------------------------------------------------
(* proximity_opposed_roll.  has[o] tells whether opponent o has the        *)
(* attribute stat_name, and roll[o] is what roll_stat returns for o.       *)

\* The largest value roll_stat returns
MaxRoll == 2

RollValues == 1..MaxRoll

\* Mutant of the loop: the hasattr test is missing
RECURSIVE RollStatCalls_NoHasattrTest(_, _)
RollStatCalls_NoHasattrTest(proximity_list, has) ==
  IF proximity_list = <<>> THEN <<>>
  ELSE <<Head(proximity_list)>> \o RollStatCalls_NoHasattrTest(Tail(proximity_list), has)

\* The loop over proximity_list: the opponents roll_stat is called for
RECURSIVE RollStatCalls(_, _)
RollStatCalls(proximity_list, has) ==
  IF proximity_list = <<>> THEN <<>>
  ELSE IF has[Head(proximity_list)]
       THEN <<Head(proximity_list)>> \o RollStatCalls(Tail(proximity_list), has)
       ELSE RollStatCalls(Tail(proximity_list), has)

\* The list rolls: one (opponent, roll) for every call of roll_stat
RollsOf(proximity_list, has, roll) ==
  LET called == RollStatCalls(proximity_list, has)
  IN  [i \in 1..Len(called) |-> <<called[i], roll[called[i]]>>]

\* Mutant of max: a later element with an equal roll replaces the best
RECURSIVE MaxByRoll_LastWins(_, _)
MaxByRoll_LastWins(best, rest) ==
  IF rest = <<>> THEN best
  ELSE IF Head(rest)[2] >= best[2] THEN MaxByRoll_LastWins(Head(rest), Tail(rest))
       ELSE MaxByRoll_LastWins(best, Tail(rest))

\* max(rolls, key=lambda x: x[1]) from the best so far: a later element
\* replaces it only when its roll is larger
RECURSIVE MaxByRoll(_, _)
MaxByRoll(best, rest) ==
  IF rest = <<>> THEN best
  ELSE IF Head(rest)[2] > best[2] THEN MaxByRoll(Head(rest), Tail(rest))
       ELSE MaxByRoll(best, Tail(rest))

\* return 0, None, []
Sentinel == <<0, None, <<>>>>

\* proximity_opposed_roll: (highest_roll, highest_opponent, rolls)
ProximityOpposedRoll(g, c, has, roll, order) ==
  LET proximity_list == GetProximityList(g, c, order)
  IN  IF proximity_list = <<>> THEN Sentinel
      ELSE LET rolls == RollsOf(proximity_list, has, roll)
           IN  IF rolls = <<>> THEN Sentinel
               ELSE LET highest == MaxByRoll(Head(rolls), Tail(rolls))
                    IN  <<highest[2], highest[1], rolls>>

\* proximity_opposed_roll: the calls of roll_stat it makes
ProximityOpposedRollCalls(g, c, has, order) ==
  RollStatCalls(GetProximityList(g, c, order), has)

----------------------------------------------------------------------------
(* Actions: one call of one function.  `last` records the call and the     *)
(* graph it started from.                                                  *)

\* Nothing passed besides the characters, nothing handed back, roll_stat
\* never called
NoInput == <<>>

NoReturn == <<>>

NoRolls == <<>>

NoCall(g) ==
  [op |-> "none", a |-> 0, b |-> 0, pre |-> g,
   in |-> NoInput, ret |-> NoReturn, rolled |-> NoRolls]

Call(op, a, b) ==
  [op |-> op, a |-> a, b |-> b, pre |-> ndb,
   in |-> NoInput, ret |-> NoReturn, rolled |-> NoRolls]

\* A call with further inputs that hands back ret
CallWith(op, a, b, in, ret) ==
  [op |-> op, a |-> a, b |-> b, pre |-> ndb,
   in |-> in, ret |-> ret, rolled |-> NoRolls]

NoWorkers == <<>>

Establish(a, b) ==
  /\ ndb' = EstablishProximity(ndb, a, b)
  /\ last' = Call("establish", a, b)
  /\ UNCHANGED <<valid, loc, wk>>

Break(a, b) ==
  /\ ndb' = BreakProximity(ndb, a, b)
  /\ last' = Call("break", a, b)
  /\ UNCHANGED <<valid, loc, wk>>

ClearAll(a, order) ==
  /\ ndb' = ClearAllProximity(ndb, a, order)
  /\ last' = CallWith("clearAll", a, a, NoInput,
                    IF ClearAllProximityRaises(ndb, a) THEN Raised ELSE Returned(None))
  /\ UNCHANGED <<valid, loc, wk>>

Sync(a, order) ==
  /\ ndb' = SyncProximityBidirectional(ndb, a, order)
  /\ last' = CallWith("sync", a, a, NoInput,
                    IF SyncProximityBidirectionalRaises(ndb, a) THEN Raised ELSE Returned(None))
  /\ UNCHANGED <<valid, loc, wk>>

Cleanup(a) ==
  /\ ndb' = CleanupInvalidProximity(ndb, valid, loc, a)
  /\ last' = CallWith("cleanup", a, a, NoInput,
                    IF CleanupInvalidProximityRaises(ndb, a) THEN Raised ELSE Returned(None))
  /\ UNCHANGED <<valid, loc, wk>>

\* Maintenance pass over the characters in the order chars (also the order
\* in which each set is enumerated): all cleanups and then all syncs
PassCleanupSync(chars) ==
  /\ ndb' = SyncEach(CleanupEach(ndb, valid, loc, chars), chars, chars)
  /\ last' = Call("pass_cleanup_sync", 0, 0)
  /\ UNCHANGED <<valid, loc, wk>>

\* Maintenance pass over the characters in the order chars: all syncs and
\* then all cleanups
PassSyncCleanup(chars) ==
  /\ ndb' = CleanupEach(SyncEach(ndb, chars, chars), valid, loc, chars)
  /\ last' = Call("pass_sync_cleanup", 0, 0)
  /\ UNCHANGED <<valid, loc, wk>>

\* initialize_proximity(a), handing back whether it initialized
Initialize(a) ==
  /\ ndb' = InitializeProximity(ndb, a)
  /\ last' = CallWith("initialize", a, a, NoInput, Returned(InitializeNeeded(ndb, a)))
  /\ UNCHANGED <<valid, loc, wk>>

\* get_proximity_list(a), the set enumerated in the order `order`
QueryProximityList(a, order) ==
  /\ last' = CallWith("listNeighbors", a, a, order,
                      IF GetProximityListRaises(ndb, a) THEN Raised
                      ELSE Returned(GetProximityList(ndb, a, order)))
  /\ UNCHANGED <<ndb, valid, loc, wk>>

\* is_in_proximity(a, b)
QueryIsInProximity(a, b) ==
  /\ last' = CallWith("isAdjacent", a, b, NoInput,
                      IF IsInProximityRaises(ndb, a, b) THEN Raised
                      ELSE Returned(IsInProximity(ndb, a, b)))
  /\ UNCHANGED <<ndb, valid, loc, wk>>

\* proximity_opposed_roll(a, stat_name)
OpposedRoll(a, has, roll, order) ==
  /\ last' = [op |-> "opposedRoll", a |-> a, b |-> a, pre |-> ndb,
              in |-> [has |-> has, roll |-> roll, order |-> order],
              ret |-> IF GetProximityListRaises(ndb, a) THEN Raised
                      ELSE Returned(ProximityOpposedRoll(ndb, a, has, roll, order)),
              rolled |-> ProximityOpposedRollCalls(ndb, a, has, order)]
  /\ UNCHANGED <<ndb, valid, loc, wk>>

\* The game moves a character, or its location is lost.
Move(a, l) ==
  /\ loc[a] # l
  /\ loc' = [loc EXCEPT ![a] = l]
  /\ last' = Call("move", a, a)
  /\ UNCHANGED <<ndb, valid, wk>>

\* The game destroys or restores a character object.
SetValid(a, v) ==
  /\ valid[a] # v
  /\ valid' = [valid EXCEPT ![a] = v]
  /\ last' = Call("setvalid", a, a)
  /\ UNCHANGED <<ndb, loc, wk>>

----------------------------------------------------------------------------
(* Spec: calls of the lifecycle and sync functions from any prior graph.   *)

Init ==
  /\ ndb \in Graphs
  /\ valid = [c \in Actors |-> TRUE]
  /\ loc = [c \in Actors |-> At(1)]
  /\ last = NoCall(ndb)
  /\ wk = NoWorkers

Next ==
  \/ \E a, b \in Actors : Establish(a, b)
  \/ \E a, b \in Actors : Break(a, b)
  \/ \E a \in Actors, order \in Orders : ClearAll(a, order)
  \/ \E a \in Actors, order \in Orders : Sync(a, order)

Spec == Init /\ [][Next]_vars

(* SpecMaint: one maintenance call from any prior graph, with any truth    *)
(* values and locations of the characters.                                 *)

\* No call has run yet
FirstCall == last.op = "none"

InitMaint ==
  /\ ndb \in Graphs
  /\ valid \in [Actors -> BOOLEAN]
  /\ loc \in [Actors -> LocValues]
  /\ last = NoCall(ndb)
  /\ wk = NoWorkers

NextMaint ==
  \/ \E a \in Actors : FirstCall /\ Cleanup(a)
  \/ \E chars \in Orders : FirstCall /\ PassCleanupSync(chars)
  \/ \E chars \in Orders : FirstCall /\ PassSyncCleanup(chars)

SpecMaint == InitMaint /\ [][NextMaint]_vars

(* SpecRun: any sequence of the public functions from the graph in which   *)
(* no character has the attribute yet, the game moving and destroying      *)
(* characters in between.                                                  *)

InitRun ==
  /\ ndb = [c \in Actors |-> Absent]
  /\ valid = [c \in Actors |-> TRUE]
  /\ loc \in [Actors -> {At(r) : r \in Rooms}]
  /\ last = NoCall(ndb)
  /\ wk = NoWorkers

NextRun ==
  \/ \E a, b \in Actors : Establish(a, b)
  \/ \E a, b \in Actors : Break(a, b)
  \/ \E a \in Actors, order \in Orders : ClearAll(a, order)
  \/ \E a \in Actors, order \in Orders : Sync(a, order)
  \/ \E a \in Actors : Cleanup(a)
  \/ \E a \in Actors, r \in Rooms : Move(a, At(r))
  \/ \E a \in Actors, v \in BOOLEAN : SetValid(a, v)

SpecRun == InitRun /\ [][NextRun]_vars

(* SpecQuery: one call of a query or of a function that opens with the     *)
(* tests of the attribute, from any prior graph; initialize_proximity may  *)
(* be called again after itself.                                           *)

InitQuery ==
  /\ ndb \in Graphs
  /\ valid = [c \in Actors |-> TRUE]
  /\ loc \in [Actors -> {At(r) : r \in Rooms}]
  /\ last = NoCall(ndb)
  /\ wk = NoWorkers

NextQuery ==
  \/ \E a \in Actors : last.op \in {"none", "initialize"} /\ Initialize(a)
  \/ \E a \in Actors, order \in Orders : FirstCall /\ QueryProximityList(a, order)
  \/ \E a, b \in Actors : FirstCall /\ QueryIsInProximity(a, b)
  \/ \E a \in Actors, order \in Orders : FirstCall /\ ClearAll(a, order)
  \/ \E a \in Actors : FirstCall /\ Cleanup(a)
  \/ \E a \in Actors, order \in Orders : FirstCall /\ Sync(a, order)

SpecQuery == InitQuery /\ [][NextQuery]_vars

(* SpecRoll: one call of proximity_opposed_roll from any prior graph, for  *)
(* any stat and any rolls.                                                 *)

NextRoll ==
  /\ FirstCall
  /\ \E a \in Actors, has \in [Actors -> BOOLEAN], roll \in [Actors -> RollValues],
        order \in Orders :
       OpposedRoll(a, has, roll, order)

SpecRoll == Init /\ [][NextRoll]_vars

(* SpecLifecycle: any sequence of establish, break, clearAll and sync      *)
(* calls, one after the other, from the empty graph: every character has   *)
(* either no attribute yet or an empty set.                                *)

InitEmpty ==
  /\ ndb \in [Actors -> {Absent, SetOf({})}]
  /\ valid = [c \in Actors |-> TRUE]
  /\ loc = [c \in Actors |-> At(1)]
  /\ last = NoCall(ndb)
  /\ wk = NoWorkers

SpecLifecycle == InitEmpty /\ [][Next]_vars

(* SpecLoopFree: any sequence of the five mutating functions from any      *)
(* graph in which no character is a member of its own set, the characters  *)
(* in any rooms.                                                           *)

\* Attribute values of character c that do not hold c itself
StorageWithout(c) == {Absent, NotASet} \cup {SetOf(S) : S \in SUBSET (Actors \ {c})}

LoopFreeGraphs == {g \in Graphs : \A c \in Actors : g[c] \in StorageWithout(c)}

InitLoopFree ==
  /\ ndb \in LoopFreeGraphs
  /\ valid = [c \in Actors |-> TRUE]
  /\ loc \in [Actors -> {At(r) : r \in Rooms}]
  /\ last = NoCall(ndb)
  /\ wk = NoWorkers

NextLoopFree ==
  \/ \E a, b \in Actors : Establish(a, b)
  \/ \E a, b \in Actors : Break(a, b)
  \/ \E a \in Actors, order \in Orders : ClearAll(a, order)
  \/ \E a \in Actors, order \in Orders : Sync(a, order)
  \/ \E a \in Actors : Cleanup(a)

SpecLoopFree == InitLoopFree /\ [][NextLoopFree]_vars

----------------------------------------------------------------------------
(* SpecConc: two workers, each running one lifecycle call, their reads and *)
(* writes of the attributes and of the set objects interleaving.  A worker *)
(* holds references to set objects: a reference is live while the object   *)
(* is still the attribute's value, and detached (with the object's content *)
(* in val) once initialize_proximity has replaced the attribute by a new   *)
(* set.  The function takes no lock.                                       *)

Workers == {1, 2}

NoRef == [live |-> FALSE, of |-> 0, val |-> {}]

LiveRef(c) == [live |-> TRUE, of |-> c, val |-> {}]

Calls ==
  [op : {"establish", "break"}, a : Actors, b : Actors]
    \cup {[op |-> "clearAll", a |-> c, b |-> c] : c \in Actors}

\* Graphs the sequential lifecycle calls leave behind: proper sets or no
\* attribute, no self-loop, every entry reciprocated.
SettledGraphs ==
  {g \in [Actors -> {Absent} \cup {SetOf(S) : S \in SUBSET Actors}] :
     \A c \in Actors :
       /\ c \notin g[c].elems
       /\ \A o \in g[c].elems : c \in g[o].elems}

StartOf(call) ==
  [call |-> call, pc |-> <<"start", 0>>, refs |-> <<NoRef, NoRef>>, snap |-> <<>>]

\* The character argument number i of a call
Arg(call, i) == IF i = 1 THEN call.a ELSE call.b

\* setattr(c.ndb, NDB_PROXIMITY, set()): the old object, if a set, lives on
\* only in the references that workers hold
DetachRef(r, c) ==
  IF r.live /\ r.of = c
  THEN [live |-> FALSE, of |-> c, val |-> ProximityOf(ndb, c)]
  ELSE r

Detach(w, c) == [w EXCEPT !.refs = <<DetachRef(w.refs[1], c), DetachRef(w.refs[2], c)>>]

\* What a worker reads through a reference
Deref(r) == IF r.live THEN ProximityOf(ndb, r.of) ELSE r.val

\* Worker w moves to pc, the graph unchanged
Goto(w, pc) ==
  /\ wk' = [wk EXCEPT ![w].pc = pc]
  /\ UNCHANGED <<ndb, valid, loc, last>>

\* Worker w takes reference number i to the set object of character c
GetRef(w, i, c, pc) ==
  /\ wk' = [wk EXCEPT ![w].refs[i] = LiveRef(c), ![w].pc = pc]
  /\ UNCHANGED <<ndb, valid, loc, last>>

\* Worker w writes set S into the object behind its reference number i
WriteRef(w, i, S, pc) ==
  IF wk[w].refs[i].live
  THEN /\ ndb' = [ndb EXCEPT ![wk[w].refs[i].of] = SetOf(S)]
       /\ wk' = [wk EXCEPT ![w].pc = pc]
       /\ UNCHANGED <<valid, loc, last>>
  ELSE /\ wk' = [wk EXCEPT ![w].pc = pc, ![w].refs[i].val = S]
       /\ UNCHANGED <<ndb, valid, loc, last>>

\* The call begins: the test char1 == char2 of establish and break
Begin(w) ==
  /\ wk[w].pc = <<"start", 0>>
  /\ LET call == wk[w].call
     IN  IF call.op = "clearAll" THEN Goto(w, <<"c_chk", 0>>)
         ELSE IF call.a = call.b THEN Goto(w, <<"done", 0>>)
         ELSE IF call.op = "establish" THEN Goto(w, <<"e_chk", 1>>)
         ELSE Goto(w, <<"b_chk", 1>>)

\* establish: initialize_proximity's test for character i
EstCheck(w, i) ==
  /\ wk[w].pc = <<"e_chk", i>>
  /\ IF InitializeNeeded(ndb, Arg(wk[w].call, i))
     THEN Goto(w, <<"e_set", i>>)
     ELSE Goto(w, IF i = 1 THEN <<"e_chk", 2>> ELSE <<"e_get", 1>>)

\* establish: initialize_proximity's setattr for character i
EstSet(w, i) ==
  /\ wk[w].pc = <<"e_set", i>>
  /\ LET c == Arg(wk[w].call, i)
     IN  /\ ndb' = [ndb EXCEPT ![c] = SetOf({})]
         /\ wk' = [v \in Workers |->
                     IF v = w
                     THEN [wk[v] EXCEPT !.pc = IF i = 1 THEN <<"e_chk", 2>>
                                                ELSE <<"e_get", 1>>]
                     ELSE Detach(wk[v], c)]
  /\ UNCHANGED <<valid, loc, last>>

\* establish: char<i>_proximity = getattr(char<i>.ndb, NDB_PROXIMITY)
EstGet(w, i) ==
  /\ wk[w].pc = <<"e_get", i>>
  /\ GetRef(w, i, Arg(wk[w].call, i),
            IF i = 1 THEN <<"e_get", 2>> ELSE <<"e_add", 1>>)

\* establish: char<i>_proximity.add(the other character)
EstAdd(w, i) ==
  /\ wk[w].pc = <<"e_add", i>>
  /\ WriteRef(w, i, Deref(wk[w].refs[i]) \cup {Arg(wk[w].call, 3 - i)},
              IF i = 1 THEN <<"e_add", 2>> ELSE <<"done", 0>>)

\* break: the hasattr and isinstance test for character i
BreakCheck(w, i) ==
  /\ wk[w].pc = <<"b_chk", i>>
  /\ IF HasProximitySet(ndb, Arg(wk[w].call, i))
     THEN Goto(w, <<"b_get", i>>)
     ELSE Goto(w, IF i = 1 THEN <<"b_chk", 2>> ELSE <<"done", 0>>)

\* break: getattr(char<i>.ndb, NDB_PROXIMITY)
BreakGet(w, i) ==
  /\ wk[w].pc = <<"b_get", i>>
  /\ GetRef(w, i, Arg(wk[w].call, i), <<"b_dis", i>>)

\* break: .discard(the other character)
BreakDiscard(w, i) ==
  /\ wk[w].pc = <<"b_dis", i>>
  /\ WriteRef(w, i, Deref(wk[w].refs[i]) \ {Arg(wk[w].call, 3 - i)},
              IF i = 1 THEN <<"b_chk", 2>> ELSE <<"done", 0>>)

\* clearAll: hasattr, getattr and the isinstance test
ClearCheck(w) ==
  /\ wk[w].pc = <<"c_chk", 0>>
  /\ IF HasProximitySet(ndb, wk[w].call.a)
     THEN GetRef(w, 1, wk[w].call.a, <<"c_list", 0>>)
     ELSE Goto(w, <<"done", 0>>)

\* clearAll: list(proximity_set), enumerated in some order
ClearList(w, order) ==
  /\ wk[w].pc = <<"c_list", 0>>
  /\ wk' = [wk EXCEPT ![w].snap = ListOf(Deref(wk[w].refs[1]), order),
                      ![w].pc = <<"c_loop", 0>>]
  /\ UNCHANGED <<ndb, valid, loc, last>>

\* clearAll: the loop head and the test of other_char's attribute
ClearLoopCheck(w) ==
  /\ wk[w].pc = <<"c_loop", 0>>
  /\ IF wk[w].snap = <<>> THEN Goto(w, <<"c_clear", 0>>)
     ELSE IF HasProximitySet(ndb, Head(wk[w].snap)) THEN Goto(w, <<"c_get", 0>>)
     ELSE /\ wk' = [wk EXCEPT ![w].snap = Tail(@)]
          /\ UNCHANGED <<ndb, valid, loc, last>>

\* clearAll: getattr(other_char.ndb, NDB_PROXIMITY)
ClearGet(w) ==
  /\ wk[w].pc = <<"c_get", 0>>
  /\ GetRef(w, 2, Head(wk[w].snap), <<"c_dis", 0>>)

\* clearAll: .discard(character), and on to the next other_char
ClearDiscard(w) ==
  /\ wk[w].pc = <<"c_dis", 0>>
  /\ IF wk[w].refs[2].live
     THEN /\ ndb' = DiscardFrom(ndb, wk[w].refs[2].of, wk[w].call.a)
          /\ wk' = [wk EXCEPT ![w].pc = <<"c_loop", 0>>, ![w].snap = Tail(@)]
          /\ UNCHANGED <<valid, loc, last>>
     ELSE /\ wk' = [wk EXCEPT ![w].pc = <<"c_loop", 0>>, ![w].snap = Tail(@),
                              ![w].refs[2].val = @ \ {wk[w].call.a}]
          /\ UNCHANGED <<ndb, valid, loc, last>>

\* clearAll: proximity_set.clear()
ClearClear(w) ==
  /\ wk[w].pc = <<"c_clear", 0>>
  /\ WriteRef(w, 1, {}, <<"done", 0>>)

InitConc ==
  /\ ndb \in SettledGraphs
  /\ valid = [c \in Actors |-> TRUE]
  /\ loc = [c \in Actors |-> At(1)]
  /\ last = NoCall(ndb)
  /\ wk \in [Workers -> {StartOf(call) : call \in Calls}]

NextConc ==
  \E w \in Workers :
    \/ Begin(w)
    \/ \E i \in {1, 2} : EstCheck(w, i)
    \/ \E i \in {1, 2} : EstSet(w, i)
    \/ \E i \in {1, 2} : EstGet(w, i)
    \/ \E i \in {1, 2} : EstAdd(w, i)
    \/ \E i \in {1, 2} : BreakCheck(w, i)
    \/ \E i \in {1, 2} : BreakGet(w, i)
    \/ \E i \in {1, 2} : BreakDiscard(w, i)
    \/ ClearCheck(w)
    \/ \E order \in Orders : ClearList(w, order)
    \/ ClearLoopCheck(w)
    \/ ClearGet(w)
    \/ ClearDiscard(w)
    \/ ClearClear(w)

SpecConc == InitConc /\ [][NextConc]_vars

AllDone == \A w \in Workers : wk[w].pc = <<"done", 0>>

----------------------------------------------------------------------------
(* The spec's vocabulary on the current state.                             *)

isAdjacent(a, b) == IsInProximity(ndb, a, b)

neighbors(a) == ProximityOf(ndb, a)

neighborsBefore(a) == ProximityOf(last.pre, a)

\* I2: every neighbour entry is reciprocated
Symmetric == \A a \in Actors : \A b \in neighbors(a) : a \in neighbors(b)

\* I3: every neighbour is valid, has a location, and is where its owner is
\* when the owner's location is known
AllNeighborsValid ==
  \A a \in Actors : \A n \in neighbors(a) :
    /\ valid[n]
    /\ Located(loc, n)
    /\ Located(loc, a) => loc[a] = loc[n]

----------------------------------------------------------------------------
\* C1: after establish(A,B) with A # B, from any prior graph (attribute
\* absent or not a set included), isAdjacent(A,B) and isAdjacent(B,A) hold.
C1_EstablishSymmetric ==
  (last.op = "establish" /\ last.a # last.b)
    => (isAdjacent(last.a, last.b) /\ isAdjacent(last.b, last.a))

\* establish(A,B) has run where A's attribute was not a set and B had none
C1_Witness ==
  /\ last.op = "establish" /\ last.a # last.b
  /\ last.pre[last.a].kind = "other"
  /\ last.pre[last.b].kind = "absent"
  /\ isAdjacent(last.a, last.b) /\ isAdjacent(last.b, last.a)

\* C2: once two concurrent establish/break calls on the same pair {A,B} have
\* both completed, B is in A's set iff A is in B's set.
C2_NoPermanentAsymmetry ==
  \A a, b \in Actors :
    ( /\ a # b
      /\ AllDone
      /\ \A w \in Workers :
           /\ wk[w].call.op \in {"establish", "break"}
           /\ {wk[w].call.a, wk[w].call.b} = {a, b} )
      => (b \in neighbors(a) <=> a \in neighbors(b))

\* C3: in every state reachable through the public functions, right after
\* clearAll(A) no character has A in its set and A's own set is empty.
C3_ClearAllLeavesRelation ==
  last.op = "clearAll"
    => /\ neighbors(last.a) = {}
       /\ \A x \in Actors : ~isAdjacent(x, last.a)

\* C4: after clearAll(A), A's set is empty and no B that was in A's set has
\* A in its own.
C4_ClearAllRemovesFromNeighbors ==
  last.op = "clearAll"
    => /\ neighbors(last.a) = {}
       /\ GetProximityList(ndb, last.a, <<1, 2, 3>>) = <<>>
       /\ \A b \in neighborsBefore(last.a) : ~isAdjacent(b, last.a)

\* clearAll(A) has run where A had both other characters as neighbours and
\* both had A
C4_Witness ==
  /\ last.op = "clearAll"
  /\ neighborsBefore(last.a) = Actors \ {last.a}
  /\ \A b \in Actors \ {last.a} : IsInProximity(last.pre, b, last.a)
  /\ \A b \in Actors : ~isAdjacent(b, last.a)

\* C5 as claimed: a maintenance pass in either order leaves I2 and I3.
C5_PassLeavesConsistent ==
  last.op \in {"pass_cleanup_sync", "pass_sync_cleanup"}
    => (Symmetric /\ AllNeighborsValid)

\* C5 as amended: cleanups-then-syncs leaves I2; syncs-then-cleanups leaves
\* I3.
C5_PassLeavesLastRepair ==
  /\ last.op = "pass_cleanup_sync" => Symmetric
  /\ last.op = "pass_sync_cleanup" => AllNeighborsValid

\* a cleanups-then-syncs pass has run over a drifted graph and left every
\* entry reciprocated, one of them naming a neighbour that is not valid
C5_Witness ==
  /\ last.op = "pass_cleanup_sync"
  /\ \E a \in Actors : \E b \in ProximityOf(last.pre, a) : a \notin ProximityOf(last.pre, b)
  /\ Symmetric
  /\ ~AllNeighborsValid

\* C6 as claimed: cleanupInvalid(actor) removes n exactly when n is invalid,
\* or has no resolvable location, or actor has a resolvable location that
\* differs from n's.
C6_CleanupRemovesExactly ==
  last.op = "cleanup"
    => \A n \in neighborsBefore(last.a) :
         (n \notin neighbors(last.a))
           <=> \/ ~valid[n]
               \/ ~Located(loc, n)
               \/ (Located(loc, last.a) /\ loc[last.a] # loc[n])

\* C6 as amended: n stays exactly when it is valid, has a room as location,
\* and actor either has no location attribute or is in n's room (an actor
\* whose location is None keeps nobody); nothing is added.
C6_CleanupKeepsExactly ==
  last.op = "cleanup"
    => /\ neighbors(last.a) \subseteq neighborsBefore(last.a)
       /\ \A n \in neighborsBefore(last.a) :
            (n \in neighbors(last.a))
              <=> /\ valid[n]
                  /\ Located(loc, n)
                  /\ loc[last.a] \in {NoLocationAttr, loc[n]}

\* cleanupInvalid has run for an actor whose location is None and removed a
\* valid neighbour that is in a room; and one with no location attribute
\* would have kept it
C6_Witness ==
  /\ last.op = "cleanup"
  /\ loc[last.a] = LocationNone
  /\ \E n \in neighborsBefore(last.a) :
       n # last.a /\ valid[n] /\ Located(loc, n) /\ n \notin neighbors(last.a)

\* C7: for A with a resolvable location and B in A's set, B invalid, without
\* resolvable location or elsewhere: after cleanupInvalid(A), not
\* isAdjacent(A,B).
C7_CleanupPrunes ==
  (last.op = "cleanup" /\ Located(loc, last.a))
    => \A b \in neighborsBefore(last.a) :
         (~valid[b] \/ ~Located(loc, b) \/ loc[b] # loc[last.a])
           => ~isAdjacent(last.a, b)

\* cleanupInvalid(A) has run with A in a room, a valid neighbour in the
\* other room pruned and a colocated valid neighbour kept
C7_Witness ==
  /\ last.op = "cleanup"
  /\ Located(loc, last.a)
  /\ \E b, c \in neighborsBefore(last.a) :
       /\ b # last.a /\ valid[b] /\ Located(loc, b) /\ loc[b] # loc[last.a]
       /\ ~isAdjacent(last.a, b)
       /\ c # last.a /\ isAdjacent(last.a, c)

\* C8 as claimed: after syncBidirectional(A), every B in A's set has
\* isAdjacent(B,A).
C8_SyncRepairsAll ==
  last.op = "sync"
    => \A b \in neighbors(last.a) : isAdjacent(b, last.a)

\* C8 as amended: after syncBidirectional(A), every B other than A itself
\* in A's set has isAdjacent(B,A).
C8_SyncRepairsOthers ==
  last.op = "sync"
    => \A b \in neighbors(last.a) \ {last.a} : isAdjacent(b, last.a)

\* syncBidirectional(A) has run where one neighbour had no attribute and
\* another's attribute was not a set
C8_Witness ==
  /\ last.op = "sync"
  /\ \E b, c \in neighbors(last.a) :
       /\ last.pre[b].kind = "absent"
       /\ last.pre[c].kind = "other"
       /\ isAdjacent(b, last.a) /\ isAdjacent(c, last.a)

\* C9: after break(A,B) with A # B, from a graph where A's and B's
\* attributes are absent or proper sets, neither is adjacent to the other,
\* and nothing else changed: no third character's attribute, no other entry
\* of A's or B's set.
C9_BreakSymmetricFrame ==
  ( /\ last.op = "break" /\ last.a # last.b
    /\ last.pre[last.a].kind # "other"
    /\ last.pre[last.b].kind # "other" )
    => /\ ~isAdjacent(last.a, last.b)
       /\ ~isAdjacent(last.b, last.a)
       /\ \A c \in Actors \ {last.a, last.b} : ndb[c] = last.pre[c]
       /\ neighbors(last.a) \ {last.b} = neighborsBefore(last.a) \ {last.b}
       /\ neighbors(last.b) \ {last.a} = neighborsBefore(last.b) \ {last.a}

\* break(A,B) has run on an edge held on both sides, where A and B each had
\* the third character as neighbour too and the third had both
C9_Witness ==
  /\ last.op = "break" /\ last.a # last.b
  /\ IsInProximity(last.pre, last.a, last.b)
  /\ IsInProximity(last.pre, last.b, last.a)
  /\ \E c \in Actors \ {last.a, last.b} :
       /\ c \in neighbors(last.a) /\ c \in neighbors(last.b)
       /\ neighbors(c) = {last.a, last.b}
  /\ ~isAdjacent(last.a, last.b) /\ ~isAdjacent(last.b, last.a)

\* C10: establish(A,A) changes nothing (no set modified, no attribute
\* created), and isAdjacent(A,A) is false in every state.
C10_NoSelfLoop ==
  /\ (last.op = "establish" /\ last.a = last.b) => ndb = last.pre
  /\ \A a \in Actors : ~isAdjacent(a, a)

\* establish(A,A) has run for an A without the attribute, in a graph where
\* another character is a member of its own set
C10_Witness ==
  /\ last.op = "establish" /\ last.a = last.b
  /\ ndb[last.a] = Absent
  /\ \E c \in Actors : c \in neighbors(c)

\* C11: I1.  From a graph without self-loops, after any sequence of
\* establish, break, clearAll, cleanupInvalid and syncBidirectional calls
\* with any arguments, no character is a member of its own set.
C11_NoSelfLoopEver == \A a \in Actors : a \notin neighbors(a)

\* establish(A,A) has run for an A that holds a set with a neighbour in it,
\* and A is not in it
C11_Witness ==
  /\ last.op = "establish" /\ last.a = last.b
  /\ neighbors(last.a) # {}
  /\ last.a \notin neighbors(last.a)

\* C12: isAdjacent(a,b) is one-directional: it equals (a # b, a has a proper
\* set, b is in a's set) whatever b's set holds; where b is in a's set and a
\* is not in b's, isAdjacent(a,b) is true and isAdjacent(b,a) is false.
C12_IsAdjacentOneDirectional ==
  /\ last.op = "isAdjacent"
       => /\ last.ret = Returned(/\ last.a # last.b
                                 /\ last.pre[last.a].kind = "set"
                                 /\ last.b \in last.pre[last.a].elems)
          /\ ndb = last.pre
  /\ \A a, b \in Actors :
       (b \in neighbors(a) /\ a \notin neighbors(b))
         => (isAdjacent(a, b) /\ ~isAdjacent(b, a))

\* isAdjacent(a,b) was asked where b is in a's set and a is not in the set
\* that b holds, and answered true
C12_Witness ==
  /\ last.op = "isAdjacent"
  /\ last.b \in neighbors(last.a)
  /\ HasProximitySet(ndb, last.b)
  /\ last.a \notin neighbors(last.b)
  /\ last.ret = Returned(TRUE)

\* The neighbours of the actor of the last opposedRoll that expose the stat,
\* in enumeration order
exposing ==
  SelectSeq(last.in.order,
            LAMBDA o : o \in neighborsBefore(last.a) /\ last.in.has[o])

\* C13: opposedRoll returns as allRolls one (opponent, roll) pair per
\* neighbour that exposes the stat, in enumeration order, the roll function
\* called once for each; bestRoll and bestOpponent are the pair with the
\* largest roll, the first such pair in enumeration order.
C13_OpposedRollFirstMaxWins ==
  last.op = "opposedRoll"
    => \E r \in {last.ret[2]} :
         /\ last.ret = Returned(r)
         /\ last.rolled = exposing
         /\ Len(r[3]) = Len(exposing)
         /\ \A i \in 1..Len(exposing) :
              r[3][i] = <<exposing[i], last.in.roll[exposing[i]]>>
         /\ exposing # <<>>
              => \E i \in 1..Len(r[3]) :
                   /\ r[3][i] = <<r[2], r[1]>>
                   /\ \A j \in 1..Len(r[3]) : r[3][j][2] <= r[1]
                   /\ \A j \in 1..(i - 1) : r[3][j][2] < r[1]

\* opposedRoll has run over three neighbours X, Y, Z with rolls 1, 2, 2 and
\* returned (2, Y, [(X,1), (Y,2), (Z,2)])
C13_Witness ==
  /\ last.op = "opposedRoll"
  /\ Len(exposing) = 3
  /\ last.in.roll[exposing[1]] = 1
  /\ last.in.roll[exposing[2]] = 2
  /\ last.in.roll[exposing[3]] = 2
  /\ last.ret = Returned(<<2, exposing[2],
                           <<<<exposing[1], 1>>, <<exposing[2], 2>>, <<exposing[3], 2>>>>>>)

\* C14: opposedRoll returns the sentinel (0, none, empty list) whenever the
\* actor has no storage, or an empty neighbour set, or neighbours none of
\* which exposes the stat; the roll function is then never called, and the
\* graph is unchanged.
C14_OpposedRollSentinel ==
  ( /\ last.op = "opposedRoll"
    /\ \/ last.pre[last.a].kind = "absent"
       \/ neighborsBefore(last.a) = {}
       \/ \A n \in neighborsBefore(last.a) : ~last.in.has[n] )
    => /\ last.ret = Returned(<<0, None, <<>>>>)
       /\ last.rolled = <<>>
       /\ ndb = last.pre

\* opposedRoll has run for an actor with two neighbours that do not expose
\* the stat, which a third character does, and returned the sentinel
C14_Witness ==
  /\ last.op = "opposedRoll"
  /\ Cardinality(neighborsBefore(last.a)) = 2
  /\ \A n \in neighborsBefore(last.a) : ~last.in.has[n]
  /\ \E n \in Actors : last.in.has[n]
  /\ last.ret = Returned(Sentinel)

\* C15: for an actor whose attribute is missing or not a proper set,
\* listNeighbors returns the empty sequence, isAdjacent returns false, and
\* clearAll, cleanupInvalid and syncBidirectional return having done
\* nothing; none of the calls ends in an error, changes the graph or creates
\* the attribute.
C15_DegradeToEmpty ==
  ( /\ last.op \in {"listNeighbors", "isAdjacent", "clearAll", "cleanup", "sync"}
    /\ last.pre[last.a].kind # "set" )
    => /\ last.ret # Raised
       /\ ndb = last.pre
       /\ last.op = "listNeighbors" => last.ret = Returned(<<>>)
       /\ last.op = "isAdjacent" => last.ret = Returned(FALSE)
       /\ last.op \in {"clearAll", "cleanup", "sync"} => last.ret = Returned(None)

\* clearAll(A) has returned for an A whose attribute is not a set while
\* both other characters hold A in their sets, and nothing changed
C15_Witness ==
  /\ last.op = "clearAll"
  /\ last.pre[last.a].kind = "other"
  /\ \A b \in Actors \ {last.a} : last.a \in neighbors(b)
  /\ last.ret = Returned(None)
  /\ ndb = last.pre

\* C16: initialize(actor) returns true and installs an empty set exactly
\* when the actor has no attribute or one that is not a proper set; with a
\* proper set it returns false and leaves the set as it is; a second
\* initialize right after the first returns false and changes nothing.
C16_InitializeIdempotent ==
  /\ [](last.op = "initialize"
          => /\ last.ret = Returned(last.pre[last.a].kind # "set")
             /\ last.pre[last.a].kind # "set"
                  => ndb = [last.pre EXCEPT ![last.a] = SetOf({})]
             /\ last.pre[last.a].kind = "set" => ndb = last.pre)
  /\ [][(last.op = "initialize" /\ last'.op = "initialize" /\ last'.a = last.a)
          => (last'.ret = Returned(FALSE) /\ ndb' = ndb)]_vars

\* initialize(A) has returned false for an A that holds a set with both
\* other characters in it, and the set is as it was
C16_Witness ==
  /\ last.op = "initialize"
  /\ neighborsBefore(last.a) = Actors \ {last.a}
  /\ last.ret = Returned(FALSE)
  /\ neighbors(last.a) = Actors \ {last.a}

\* C17: syncBidirectional(actor) only adds reciprocal entries: actor's own
\* set is unchanged, every other character's set afterwards includes its set
\* before, the only element added anywhere is actor, and only to sets of
\* characters that are in actor's set.
C17_SyncOnlyAdds ==
  last.op = "sync"
    => /\ ndb[last.a] = last.pre[last.a]
       /\ \A c \in Actors \ {last.a} :
            /\ neighborsBefore(c) \subseteq neighbors(c)
            /\ neighbors(c) \ neighborsBefore(c) \subseteq {last.a}
            /\ c \notin neighbors(last.a) => ndb[c] = last.pre[c]

\* syncBidirectional(A) has run where a neighbour held the third character
\* but not A: it now holds both, and the third, not in A's set, is as before
C17_Witness ==
  /\ last.op = "sync"
  /\ \E b, c \in Actors \ {last.a} :
       /\ b # c
       /\ neighbors(last.a) = {b}
       /\ neighborsBefore(b) = {c}
       /\ neighbors(b) = {c, last.a}
       /\ ndb[c] = last.pre[c]

\* C18: cleanupInvalid(actor) is a one-sided sweep: it only removes elements
\* from actor's own set; every other character's attribute, the reciprocal
\* entry of a pruned neighbour included, is unchanged, so that afterwards
\* actor may be in n's set while n is not in actor's.
C18_CleanupOneSided ==
  last.op = "cleanup"
    => /\ neighbors(last.a) \subseteq neighborsBefore(last.a)
       /\ ndb[last.a].kind = last.pre[last.a].kind
       /\ \A c \in Actors \ {last.a} : ndb[c] = last.pre[c]

\* cleanupInvalid(A) has pruned a neighbour n that held A: n still holds A
\* and A no longer holds n
C18_Witness ==
  /\ last.op = "cleanup"
  /\ \E n \in neighborsBefore(last.a) \ {last.a} :
       /\ IsInProximity(last.pre, n, last.a)
       /\ n \notin neighbors(last.a)
       /\ last.a \in neighbors(n)

\* C19: I2.  From the empty graph, after any sequence of establish, break,
\* clearAll and syncBidirectional calls run one after the other, B is in A's
\* set iff A is in B's set, for all A and B.
C19_SymmetryPreserved ==
  \A a, b \in Actors : (b \in neighbors(a)) <=> (a \in neighbors(b))

\* clearAll(A) has run in the graph where all three characters were in
\* proximity of one another, and the other two still hold each other
C19_Witness ==
  /\ last.op = "clearAll"
  /\ \A c \in Actors : neighborsBefore(c) = Actors \ {c}
  /\ neighbors(last.a) = {}
  /\ \A c \in Actors \ {last.a} : neighbors(c) = Actors \ {last.a, c}

\* C20: once clearAll(A) and an establish on the pair {A,C}, run by two
\* workers at the same time, have both completed, C is in A's set iff A is
\* in C's set.
C20_ClearAllEstablishSettle ==
  \A a, c \in Actors :
    ( /\ a # c
      /\ AllDone
      /\ \E w, v \in Workers :
           /\ wk[w].call = [op |-> "clearAll", a |-> a, b |-> a]
           /\ wk[v].call.op = "establish"
           /\ {wk[v].call.a, wk[v].call.b} = {a, c} )
      => (c \in neighbors(a) <=> a \in neighbors(c))

====
